---- MODULE Spec2Model ----
(***************************************************************************)
(* Model of the debugger's Variables view                                  *)
(* (src/vs/workbench/contrib/debug/browser/variablesView.ts).              *)
(*                                                                         *)
(* SpecRefresh     : the debounced tree refresh (scheduler, refresh task,  *)
(*                   view-state cache, visibility, session end, disposal). *)
(* SpecSchedule    : the same, each run finishing before the next starts;  *)
(*                   SpecRefreshLive adds the host's fairness.             *)
(* SpecOverlap     : the refresh task with interleaved runs.               *)
(* SpecCache       : the refresh with the user expanding and collapsing.   *)
(* SpecEdit        : value editing, horizontal scrolling, views updates.   *)
(* SpecMenu        : context menus and the commands dispatched from them.  *)
(* SpecBreak       : the data-breakpoint commands.                         *)
(* SpecRows        : the data source and the delegate.                     *)
(* SpecContextMenu : context-menu events on every kind of row.             *)
(* SpecDblClick    : double-clicks on every kind of row.                   *)
(* SpecEditing     : input boxes from start to end, with failing edits.    *)
(* SpecLazy        : the lazy-expression listener.                         *)
(* SpecCopy        : the copy-value command.                               *)
(* SpecMemory      : the view-memory command.                              *)
(***************************************************************************)
EXTENDS Naturals, Sequences, FiniteSets

\* ------------------------------------------------------------- bounds ----
\* Upper bound on refresh-task runs that are suspended at an await at once.
MaxRuns == 1
\* The same, where the interleaving of two runs is followed.
MaxOverlap == 2
\* Milliseconds that pass in one step of the clock.
TickMs == 200
\* Upper bound on dataBreakpointInfo requests in flight at once.
MaxInfoRequests == 2
\* Upper bound on setVariable / edit requests in flight at once.
MaxEdits == 2
\* Upper bound on runs of one asynchronous handler suspended at once.
MaxAsync == 1

\* ---------------------------------------------------- program constants --
\* new RunOnceScheduler(..., 400): the scheduler's default delay.
DefaultDelay == 400

\* ------------------------------------------------------------ the data ---
Null == "null"
Frames == {"F", "G"}
MaybeFrame == Frames \cup {Null}

\* stackFrame.getScopes(): the scopes of a frame, in protocol order.
ScopesOf(f) ==
    IF f = "F" THEN <<"F.args", "F.locals">>
    ELSE IF f = "G" THEN <<"G.registers">>
    ELSE <<>>

Range(s) == {s[i] : i \in 1..Len(s)}
ScopeSet(f) == Range(ScopesOf(f))
\* scope.as the debug adapter reported it.
expensive(s) == s \in {"F.args", "G.registers"}
Scopes == UNION {ScopeSet(f) : f \in Frames}

\* scope.getChildren(): the rows under a scope.  x, y and z are Variables
\* with a value and no presentation hint, v is a VisualizedExpression whose
\* tree item can be edited; u is a Variable whose value is '', r one marked
\* readOnly, l a lazy one, w a VisualizedExpression that cannot be edited.
ChildrenOf(s) ==
    IF s = "F.locals" THEN {"x", "y", "v"}
    ELSE IF s = "G.registers" THEN {"z"}
    ELSE IF s = "F.args" THEN {"u", "r", "l", "w"}
    ELSE {}
Variables == {"x", "y", "z"}
Visualized == {"v"}
Expressions == Variables \cup Visualized
EmptyValued == {"u"}
ReadOnlyVariables == {"r"}
LazyVariables == {"l"}
FixedVisualized == {"w"}
ErrorScopes == {"F.error"}
\* variable.getSession().capabilities.supportsDataBreakpoints: x and y belong
\* to a session that supports data breakpoints, z to one that does not.
supportsDataBreakpoints(v) == v \in {"x", "y"}

None == <<>>
Some(x) == <<x>>
\* new Map(): no frame id has a view state.
EmptyMap == [f \in Frames |-> None]

Monus(a, b) == IF a > b THEN a - b ELSE 0
RemoveAt(s, i) == SubSeq(s, 1, i - 1) \o SubSeq(s, i + 1, Len(s))

VARIABLES
    \* debug service / view model
    focused,            \* getViewModel().focusedStackFrame
    \* VariablesView
    disposed,           \* the view pane has been disposed
    visible,            \* isBodyVisible()
    needsRefresh,       \* this.needsRefresh
    savedViewState,     \* this.savedViewState : frame id -> view state
    autoExpandedScopes, \* this.autoExpandedScopes
    timerQueue,         \* host timers set by updateTreeScheduler
    runs,               \* runs of the refresh task suspended at an await
    \* the tree widget
    treeInput,          \* tree.getInput()
    treeLoaded,         \* the frame whose scopes are the tree's children
    treeExpanded,       \* ids of the expanded nodes
    \* history
    userWish,           \* scope id -> what the user last did to it
    lastDone,           \* the run that returned last
    unserved,           \* a focus event arrived and no run started since
    \* module-level variables
    forgetScopes,               \* let forgetScopes
    variableInternalContext,    \* let variableInternalContext
    dataBreakpointInfoResponse, \* let dataBreakpointInfoResponse
    \* value editing
    selectedExpression,         \* getViewModel().getSelectedExpression()
    horizontalScrolling,        \* renderBody's let horizontalScrolling
    treeHorizontalScrolling,    \* tree.options.horizontalScrolling
    edits,                      \* setVariable / edit requests in flight
    \* context menus
    infoRequests,               \* dataBreakpointInfo requests in flight
    shownMenu,                  \* the variable whose context menu is shown
    menuContext,                \* the context keys added for the shown menu
    \* history
    scrollBefore,       \* the scrolling option before the first selection
    lastUpdate,         \* the last run of the onWillUpdateViews handler
    dblClicked,         \* the element of the last double-click
    errorMessage,       \* the expressions whose errorMessage is set
    lastFinish,         \* the last run of an input box's onFinish
    \* the lazy-expression listener
    lazyRuns,           \* runs of the listener suspended at an await
    childrenRefreshed,  \* elements whose updateChildren has completed
    lazyEvent,          \* the element of the last lazy-expression event
    \* the copy-value command
    copyRuns,           \* runs of the handler awaiting their evaluations
    lastCopy,           \* what the run that returned last wrote
    \* the view-memory command
    memoryRuns,         \* runs of the handler suspended at an await
    lastMemory,         \* what the run that returned last did
    opened,             \* the context menu opened last, and its response
    menuEvent,          \* the element of the last context-menu event
    lastCommand,        \* the command dispatched last
    \* the tree's calls into the data source and the delegate
    lastCall            \* the last call, its element and what it returned

refreshVars == <<focused, disposed, visible, needsRefresh,
                 savedViewState, autoExpandedScopes, timerQueue, runs,
                 treeInput, treeLoaded, treeExpanded,
                 userWish, lastDone, unserved>>

inputVars == <<dblClicked, errorMessage, lastFinish>>

editVars == <<forgetScopes, selectedExpression, horizontalScrolling,
              treeHorizontalScrolling, edits, scrollBefore, lastUpdate,
              inputVars>>

menuVars == <<variableInternalContext, dataBreakpointInfoResponse,
              infoRequests, shownMenu, menuContext, opened, menuEvent,
              lastCommand>>

lazyVars == <<lazyRuns, childrenRefreshed, lazyEvent>>

copyVars == <<copyRuns, lastCopy>>

memoryVars == <<memoryRuns, lastMemory>>

asyncVars == <<lazyVars, copyVars, memoryVars>>

rowVars == <<lastCall, asyncVars>>

vars == <<refreshVars, editVars, menuVars, rowVars>>

\* ------------------------------------------------------ the tree widget --
\* tree.hasNode(element): the scopes of the loaded frame are the root's
\* children, and the rows of an expanded scope are its children.
hasNode(e) ==
    \/ e \in ScopeSet(treeLoaded)
    \/ \E s \in ScopeSet(treeLoaded) \cap treeExpanded : e \in ChildrenOf(s)

\* tree.getViewState(): the ids of the expanded nodes.
getViewState == [expanded |-> treeExpanded]

\* What tree.setInput(input, viewState) leaves expanded once the children of
\* `input` are loaded: a node that was already a child keeps its state, a new
\* node is expanded when the view state lists it.
ExpandedAfterLoad(input, viewState) ==
    LET old == ScopeSet(treeLoaded)
        new == ScopeSet(input)
        listed == IF viewState = None THEN {} ELSE viewState[1].expanded
    IN  (treeExpanded \cap old \cap new) \cup (listed \cap (new \ old))

\* -------------------------------------------------- the refresh scheduler --
\* RunOnceScheduler.schedule(delay = this.timeout): cancel() the pending
\* timeout, then set a new one.  History kept with the timer: `by`, who asked
\* for it, and `coalesced`, whether it replaced a timer that was pending.
schedule(q, delay, by) ==
    LET d == IF delay = None THEN DefaultDelay ELSE delay[1]
    IN  <<[delay |-> d, left |-> d, by |-> by, coalesced |-> q # <<>>]>>

\* const timeout = sf.explicit ? 0 : undefined;
FocusTimeout_Swapped(explicit) == IF explicit THEN None ELSE Some(0)
FocusTimeout(explicit) == IF explicit THEN Some(0) ELSE None

\* this.updateTreeScheduler.schedule(timeout);
FocusSchedule_Stacked(q, explicit) ==
    q \o schedule(<<>>, FocusTimeout(explicit),
                  IF explicit THEN "explicit" ELSE "stepping")
FocusSchedule_KeepsPending(q, explicit) ==
    IF q # <<>> THEN q
    ELSE schedule(q, FocusTimeout(explicit),
                  IF explicit THEN "explicit" ELSE "stepping")
FocusSchedule(q, explicit) ==
    schedule(q, FocusTimeout(explicit),
             IF explicit THEN "explicit" ELSE "stepping")

\* ---------------------------------------------------------- view events --
\* this.needsRefresh = true;
MarkNeedsRefresh_Dropped == needsRefresh
MarkNeedsRefresh == TRUE

\* getViewModel().onDidFocusStackFrame(sf => ...), fired by the view model
\* after it changed its focused frame to f.
OnDidFocusStackFrame(f, explicit) ==
    /\ focused' = f
    /\ unserved' = (unserved \/ ~disposed)
    /\ runs' = [i \in 1..Len(runs) |-> [runs[i] EXCEPT !.clean = FALSE]]
    /\ IF disposed
       THEN UNCHANGED <<needsRefresh, timerQueue>>
       ELSE IF ~visible
            THEN /\ needsRefresh' = MarkNeedsRefresh
                 /\ UNCHANGED <<timerQueue>>
            ELSE /\ timerQueue' = FocusSchedule(timerQueue, explicit)
                 /\ UNCHANGED needsRefresh
    /\ UNCHANGED <<disposed, visible, savedViewState,
                   autoExpandedScopes, treeInput, treeLoaded, treeExpanded,
                   userWish, lastDone>>
    /\ UNCHANGED <<editVars, menuVars, rowVars>>

\* if (visible && this.needsRefresh)
VisibilitySchedules_WhenShown(v) == v
VisibilitySchedules(v) == v /\ needsRefresh

\* this.onDidChangeBodyVisibility(visible => ...)
OnDidChangeBodyVisibility(v) ==
    /\ visible # v
    /\ visible' = v
    /\ IF ~disposed /\ VisibilitySchedules(v)
       THEN timerQueue' = schedule(timerQueue, None, "visibility")
       ELSE UNCHANGED timerQueue
    /\ UNCHANGED <<focused, disposed, needsRefresh, savedViewState,
                   autoExpandedScopes, runs, treeInput, treeLoaded,
                   treeExpanded, userWish, lastDone>>
    /\ UNCHANGED <<editVars, menuVars, rowVars>>
    /\ UNCHANGED unserved

\* this.savedViewState.clear();
EndSessionCache_KeepsOtherFrames(map) ==
    IF focused = Null THEN map ELSE [map EXCEPT ![focused] = None]
EndSessionCache(map) == EmptyMap

\* debugService.onDidEndSession(() => ...): the listener ignores which
\* session ended; F and G may be frames of different sessions.
OnDidEndSession ==
    /\ IF disposed
       THEN UNCHANGED <<savedViewState, autoExpandedScopes>>
       ELSE /\ savedViewState' = EndSessionCache(savedViewState)
            /\ autoExpandedScopes' = {}
    /\ userWish' = [s \in Scopes |-> "none"]
    /\ UNCHANGED <<focused, disposed, visible, needsRefresh,
                   timerQueue, runs, treeInput, treeLoaded, treeExpanded,
                   lastDone>>
    /\ UNCHANGED <<editVars, menuVars, rowVars>>
    /\ UNCHANGED unserved

\* ViewPane.dispose(): disposes what renderBody registered with _register
\* (the listeners and the tree).  updateTreeScheduler is never registered.
Dispose ==
    /\ ~disposed
    /\ disposed' = TRUE
    /\ UNCHANGED <<focused, visible, needsRefresh, savedViewState,
                   autoExpandedScopes, timerQueue, runs, treeInput,
                   treeLoaded, treeExpanded, userWish,
                   lastDone>>
    /\ UNCHANGED <<editVars, menuVars, rowVars>>
    /\ UNCHANGED unserved

\* The host clock: every pending timer gets closer to firing.
Tick ==
    /\ \E i \in 1..Len(timerQueue) : timerQueue[i].left > 0
    /\ timerQueue' = [i \in 1..Len(timerQueue) |->
                        [timerQueue[i] EXCEPT !.left = Monus(@, TickMs)]]
    /\ UNCHANGED <<focused, disposed, visible, needsRefresh,
                   savedViewState, autoExpandedScopes, runs, treeInput,
                   treeLoaded, treeExpanded, userWish,
                   lastDone>>
    /\ UNCHANGED <<editVars, menuVars, rowVars>>
    /\ UNCHANGED unserved

\* The user collapses / expands a scope row of the tree.
UserCollapse(s) ==
    /\ ~disposed
    /\ hasNode(s) /\ s \in treeExpanded
    /\ treeExpanded' = treeExpanded \ {s}
    /\ userWish' = [userWish EXCEPT ![s] = "collapsed"]
    /\ runs' = [i \in 1..Len(runs) |-> [runs[i] EXCEPT !.touched = TRUE]]
    /\ UNCHANGED <<focused, disposed, visible, needsRefresh,
                   savedViewState, autoExpandedScopes, timerQueue,
                   treeInput, treeLoaded, lastDone>>
    /\ UNCHANGED <<editVars, menuVars, rowVars>>
    /\ UNCHANGED unserved

UserExpand(s) ==
    /\ ~disposed
    /\ hasNode(s) /\ s \notin treeExpanded
    /\ treeExpanded' = treeExpanded \cup {s}
    /\ userWish' = [userWish EXCEPT ![s] = "expanded"]
    /\ runs' = [i \in 1..Len(runs) |-> [runs[i] EXCEPT !.touched = TRUE]]
    /\ UNCHANGED <<focused, disposed, visible, needsRefresh,
                   savedViewState, autoExpandedScopes, timerQueue,
                   treeInput, treeLoaded, lastDone>>
    /\ UNCHANGED <<editVars, menuVars, rowVars>>
    /\ UNCHANGED unserved

\* -------------------------------------------------------- the refresh task --
\* const stackFrame = this.debugService.getViewModel().focusedStackFrame;
TaskStackFrame == focused

\* this.savedViewState.set(input.getId(), this.tree.getViewState());
SaveViewState_UnderNewFrame(map, input, stackFrame) ==
    IF input # Null /\ stackFrame # Null
    THEN [map EXCEPT ![stackFrame] = Some(getViewState)]
    ELSE map
SaveViewState(map, input, stackFrame) ==
    IF input # Null THEN [map EXCEPT ![input] = Some(getViewState)] ELSE map

\* The input the task hands to tree.setInput: null when no frame is focused.
SetInputTarget_KeepOnNull(stackFrame) ==
    IF stackFrame = Null THEN treeInput ELSE stackFrame
SetInputTarget(stackFrame) == stackFrame

\* const toExpand = scopes.find(s => !s.expensive);
find_IgnoresExpensive(scopes) ==
    IF scopes = <<>> THEN None ELSE Some(Head(scopes))
RECURSIVE find(_)
find(scopes) ==
    IF scopes = <<>> THEN None
    ELSE IF ~expensive(Head(scopes)) THEN Some(Head(scopes))
    ELSE find(Tail(scopes))

\* Whether the tree shows what the user did to the scopes of `frame`.
WishesKept(frame, expanded) ==
    \A s \in ScopeSet(frame) :
        /\ userWish[s] = "collapsed" => s \notin expanded
        /\ userWish[s] = "expanded" => s \in expanded

\* The record kept of a run that returned, until the next run starts: its
\* frame and whether a focus event arrived while it ran.
Done(run) == Some([stackFrame |-> run.stackFrame, clean |-> run.clean])

\* RunOnceScheduler.onTimeout: the timer fired; the runner starts and runs up
\* to its first await (lines 91-99 or 91-104).
OnTimeout(i) ==
    /\ i \in 1..Len(timerQueue)
    /\ timerQueue[i].left = 0
    /\ timerQueue' = RemoveAt(timerQueue, i)
    /\ LET stackFrame == TaskStackFrame
           input == treeInput
           saved == SaveViewState(savedViewState, input, stackFrame)
           viewState == IF stackFrame = Null THEN None ELSE saved[stackFrame]
       IN  /\ needsRefresh' = FALSE
           /\ savedViewState' = saved
           /\ treeInput' = SetInputTarget(stackFrame)
           /\ runs' = Append(runs, [pc |-> "setInput",
                                    stackFrame |-> stackFrame,
                                    viewState |-> viewState,
                                    clean |-> TRUE,
                                    touched |-> FALSE])
    /\ lastDone' = None
    /\ unserved' = FALSE
    /\ UNCHANGED <<focused, disposed, visible, autoExpandedScopes,
                   treeLoaded, treeExpanded, userWish>>
    /\ UNCHANGED <<editVars, menuVars, rowVars>>

\* await this.tree.setInput(...) resumes: the children are loaded.
SetInputDone(i) ==
    /\ i \in 1..Len(runs)
    /\ runs[i].pc = "setInput"
    /\ LET run == runs[i]
           expanded == ExpandedAfterLoad(run.stackFrame, run.viewState)
       IN  /\ treeLoaded' = run.stackFrame
           /\ treeExpanded' = expanded
           /\ IF run.stackFrame = Null
              THEN /\ runs' = RemoveAt(runs, i)
                   /\ lastDone' = Done(run)
              ELSE /\ runs' = [runs EXCEPT ![i].pc = "getScopes"]
                   /\ UNCHANGED lastDone
    /\ UNCHANGED <<focused, disposed, visible, needsRefresh,
                   savedViewState, autoExpandedScopes, timerQueue, treeInput,
                   userWish>>
    /\ UNCHANGED <<editVars, menuVars, rowVars>>
    /\ UNCHANGED unserved

\* await stackFrame.getScopes() resumes (lines 107-115 up to the next await).
GetScopesDone(i) ==
    /\ i \in 1..Len(runs)
    /\ runs[i].pc = "getScopes"
    /\ LET run == runs[i]
           toExpand == find(ScopesOf(run.stackFrame))
       IN  IF toExpand # None /\ hasNode(toExpand[1])
           THEN /\ autoExpandedScopes' = autoExpandedScopes \cup {toExpand[1]}
                /\ runs' = [runs EXCEPT ![i].pc = "expand"]
                /\ UNCHANGED lastDone
           ELSE /\ runs' = RemoveAt(runs, i)
                /\ lastDone' = Done(run)
                /\ UNCHANGED autoExpandedScopes
    /\ UNCHANGED <<focused, disposed, visible, needsRefresh,
                   savedViewState, timerQueue, treeInput, treeLoaded,
                   treeExpanded, userWish>>
    /\ UNCHANGED <<editVars, menuVars, rowVars>>
    /\ UNCHANGED unserved

\* await this.tree.expand(toExpand) resumes: the run returns.
ExpandDone(i) ==
    /\ i \in 1..Len(runs)
    /\ runs[i].pc = "expand"
    /\ LET run == runs[i]
           expanded == treeExpanded \cup
                         {s \in Range(find(ScopesOf(run.stackFrame))) : hasNode(s)}
       IN  /\ treeExpanded' = expanded
           /\ runs' = RemoveAt(runs, i)
           /\ lastDone' = Done(run)
    /\ UNCHANGED <<focused, disposed, visible, needsRefresh,
                   savedViewState, autoExpandedScopes, timerQueue, treeInput,
                   treeLoaded, userWish>>
    /\ UNCHANGED <<editVars, menuVars, rowVars>>
    /\ UNCHANGED unserved

\* ----------------------------------------------------------- value editing --
\* getViewModel().onDidSelectExpression(e => ...): e is the selected
\* expression, or Null when the selection was cleared.
OnDidSelectExpression(e) ==
    IF disposed
    THEN UNCHANGED <<horizontalScrolling, treeHorizontalScrolling, scrollBefore>>
    ELSE IF e # Null /\ hasNode(e)
    THEN /\ horizontalScrolling' = Some(treeHorizontalScrolling)
         /\ treeHorizontalScrolling' =
                IF treeHorizontalScrolling THEN FALSE ELSE treeHorizontalScrolling
         /\ scrollBefore' = IF scrollBefore = None
                            THEN Some(treeHorizontalScrolling) ELSE scrollBefore
    ELSE IF e = Null /\ horizontalScrolling # None
    THEN /\ treeHorizontalScrolling' = horizontalScrolling[1]
         /\ horizontalScrolling' = None
         /\ scrollBefore' = None
    ELSE /\ UNCHANGED <<horizontalScrolling, treeHorizontalScrolling>>
         /\ scrollBefore' = IF e = Null THEN None ELSE scrollBefore

\* IViewModel.setSelectedExpression(e, false): sets the selection and fires
\* onDidSelectExpression.
setSelectedExpression(e) ==
    /\ selectedExpression' = e
    /\ OnDidSelectExpression(e)

\* The rows a double-click can land on.
DblClickTargets ==
    Scopes \cup Expressions \cup EmptyValued \cup ReadOnlyVariables
           \cup LazyVariables \cup FixedVisualized

\* e instanceof VisualizedExpression; e instanceof Variable
IsVisualizedExpression(e) == e \in Visualized \cup FixedVisualized
IsVariable(e) ==
    e \in Variables \cup EmptyValued \cup ReadOnlyVariables \cup LazyVariables
\* e.treeItem.canEdit; presentationHint.attributes includes 'readOnly';
\* presentationHint.lazy
canEdit(e) == e \in Visualized
readOnly(e) == e \in ReadOnlyVariables
lazy(e) == e \in LazyVariables

\* canSetExpressionValue(e): a session is focused (here: a frame is) and e is
\* an editable VisualizedExpression or Variable.
canSetExpressionValue_IgnoresLazy(e) ==
    IF focused = Null THEN FALSE
    ELSE IF IsVisualizedExpression(e) THEN canEdit(e)
    ELSE IsVariable(e) /\ ~readOnly(e)
canSetExpressionValue(e) ==
    IF focused = Null THEN FALSE
    ELSE IF IsVisualizedExpression(e) THEN canEdit(e)
    ELSE IsVariable(e) /\ ~readOnly(e) /\ ~lazy(e)

\* tree.onMouseDblClick(e => this.onMouseDblClick(e)) on a row of the tree.
OnMouseDblClick(e) ==
    /\ ~disposed
    /\ hasNode(e)
    /\ dblClicked' = e
    /\ IF canSetExpressionValue(e)
       THEN setSelectedExpression(e)
       ELSE UNCHANGED <<selectedExpression, horizontalScrolling,
                        treeHorizontalScrolling, scrollBefore>>
    /\ UNCHANGED <<forgetScopes, edits, lastUpdate, errorMessage, lastFinish>>
    /\ UNCHANGED <<refreshVars, menuVars, rowVars>>

\* if (stackFrame && forgetScopes) stackFrame.forgetScopes();
ForgetsScopes(flag) == focused # Null /\ flag

\* forgetScopes = true;
FlagAfterUpdate_NotReset(flag) == flag
FlagAfterUpdate(flag) == TRUE

\* getViewModel().onWillUpdateViews(() => ...), entered with the module's
\* forgetScopes equal to `flag`; byEdit: fired by a finished edit.
OnWillUpdateViews(flag, byEdit) ==
    /\ forgetScopes' = FlagAfterUpdate(flag)
    /\ lastUpdate' = Some([byEdit |-> byEdit,
                           flagAtEntry |-> flag,
                           hasFrame |-> focused # Null,
                           forgot |-> ForgetsScopes(flag),
                           flagAfter |-> FlagAfterUpdate(flag)])

\* Whether onFinish(value, success) sends the request that changes the value:
\* VariablesRenderer (lines 558-570), VisualizedVariableRenderer (486-495).
SendsEdit_IgnoresFrame(e, success, changed) ==
    IF e \in Visualized THEN success
    ELSE success /\ changed
SendsEdit(e, success, changed) ==
    IF e \in Visualized THEN success
    ELSE success /\ changed /\ focused # Null

\* The input box of the selected row is closed: the selection is cleared and
\* the renderer's onFinish runs.  changed: value differs from variable.value.
InputBoxFinish(success, changed) ==
    /\ ~disposed
    /\ selectedExpression # Null
    /\ LET sends == SendsEdit(selectedExpression, success, changed)
       IN  /\ sends => edits < MaxEdits
           /\ edits' = IF sends THEN edits + 1 ELSE edits
    /\ errorMessage' = errorMessage \ {selectedExpression}
    /\ lastFinish' = Some([element |-> selectedExpression,
                           success |-> success,
                           changed |-> changed,
                           hasFrame |-> focused # Null,
                           hadError |-> selectedExpression \in errorMessage,
                           sent |-> SendsEdit(selectedExpression, success,
                                              changed)])
    /\ setSelectedExpression(Null)
    /\ UNCHANGED <<forgetScopes, lastUpdate, dblClicked>>
    /\ UNCHANGED <<refreshVars, menuVars, rowVars>>

\* variable.setVariable(...) of the request sent last caught the adapter's
\* error before it resolves: the variable's errorMessage is set.
SetVariableFailed ==
    /\ edits > 0
    /\ lastFinish # None /\ lastFinish[1].sent
    /\ lastFinish[1].element \notin errorMessage
    /\ errorMessage' = errorMessage \cup {lastFinish[1].element}
    /\ UNCHANGED <<forgetScopes, selectedExpression, horizontalScrolling,
                   treeHorizontalScrolling, edits, scrollBefore, lastUpdate,
                   dblClicked, lastFinish>>
    /\ UNCHANGED <<refreshVars, menuVars, rowVars>>

\* variable.setVariable(...) / viz.edit(...) resolved: the then-callback sets
\* forgetScopes = false and calls getViewModel().updateViews().
EditResolved ==
    /\ edits > 0
    /\ edits' = edits - 1
    /\ IF disposed
       THEN /\ forgetScopes' = FALSE
            /\ UNCHANGED lastUpdate
       ELSE OnWillUpdateViews(FALSE, TRUE)
    /\ UNCHANGED <<selectedExpression, horizontalScrolling,
                   treeHorizontalScrolling, scrollBefore, inputVars>>
    /\ UNCHANGED <<refreshVars, menuVars, rowVars>>

\* The request rejected: the then-callback does not run.
EditRejected ==
    /\ edits > 0
    /\ edits' = edits - 1
    /\ UNCHANGED <<forgetScopes, selectedExpression, horizontalScrolling,
                   treeHorizontalScrolling, scrollBefore, lastUpdate,
                   inputVars>>
    /\ UNCHANGED <<refreshVars, menuVars, rowVars>>

\* getViewModel().updateViews() called by another part of the workbench.
UpdateViews ==
    /\ ~disposed
    /\ OnWillUpdateViews(forgetScopes, FALSE)
    /\ UNCHANGED <<selectedExpression, horizontalScrolling,
                   treeHorizontalScrolling, edits, scrollBefore, inputVars>>
    /\ UNCHANGED <<refreshVars, menuVars, rowVars>>

\* ---------------------------------------------------------- context menus --
\* The access types the adapter lists for a variable: x can be watched for
\* reads and for any access, y for writes only.
ListedAccessTypes(v) == IF v = "y" THEN {"write"} ELSE {"read", "readWrite"}

\* What session.dataBreakpointInfo(variable.name, ...) may resolve to:
\* nothing; a response with a dataId, the access types and canPersist; one
\* with a dataId and neither of the optional fields; one whose dataId is
\* null (for y, with its access types listed all the same).
ResponsesFor(v) ==
    {None,
     Some([variable |-> v, dataId |-> "id", description |-> v,
           accessTypes |-> Some(ListedAccessTypes(v)),
           canPersist |-> Some(TRUE)]),
     Some([variable |-> v, dataId |-> "id", description |-> v,
           accessTypes |-> None, canPersist |-> None]),
     Some([variable |-> v, dataId |-> Null, description |-> v,
           accessTypes |-> IF v = "y" THEN Some(ListedAccessTypes(v))
                           ELSE None,
           canPersist |-> Some(FALSE)])}

\* CONTEXT_BREAK_WHEN_VALUE_IS_READ_SUPPORTED / _CHANGES_ / _IS_ACCESSED_
\* for the access types 'read' / 'write' / 'readWrite'.
KeyOfAccessType_WriteAsRead(accessType) ==
    IF accessType = "readWrite" THEN "breakWhenValueIsAccessedSupported"
    ELSE "breakWhenValueIsReadSupported"
KeyOfAccessType(accessType) ==
    IF accessType = "read" THEN "breakWhenValueIsReadSupported"
    ELSE IF accessType = "write" THEN "breakWhenValueChangesSupported"
    ELSE "breakWhenValueIsAccessedSupported"

\* The contextKeys getContextForVariableMenuWithDataAccess builds from the
\* response (lines 284-304): pairs <<key, !!dataBreakpointId>>.
DataAccessContextKeys(response) ==
    LET dataBreakpointId == IF response = None THEN Null
                            ELSE response[1].dataId
        dataBreakpointAccessTypes == IF response = None THEN None
                                     ELSE response[1].accessTypes
        supported == dataBreakpointId # Null
    IN  IF dataBreakpointAccessTypes = None
        THEN {<<"breakWhenValueChangesSupported", supported>>}
        ELSE {<<KeyOfAccessType(t), supported>> :
                t \in dataBreakpointAccessTypes[1]}

\* function getContextForVariableMenuBase: variableInternalContext = variable;
getContextForVariableMenuBase(v) == variableInternalContext' = v

\* openContextMenuForVariableTreeElement(...) for a Variable with a value, up
\* to the await of session.dataBreakpointInfo (or to the shown menu, when the
\* session does not support data breakpoints).  The function is exported:
\* the rows of other trees open their menus through it too.
OpenContextMenuFor(v) ==
    /\ IF ~supportsDataBreakpoints(v)
       THEN /\ getContextForVariableMenuBase(v)
            /\ shownMenu' = v
            /\ menuContext' = {}
            /\ opened' = [variable |-> v, response |-> None, pending |-> FALSE]
            /\ infoRequests' = [i \in 1..Len(infoRequests) |->
                                  [infoRequests[i] EXCEPT !.latest = FALSE]]
       ELSE /\ Len(infoRequests) < MaxInfoRequests
            /\ infoRequests' =
                 Append([i \in 1..Len(infoRequests) |->
                           [infoRequests[i] EXCEPT !.latest = FALSE]],
                        [variable |-> v, latest |-> TRUE])
            /\ opened' = [variable |-> v, response |-> None, pending |-> TRUE]
            /\ UNCHANGED <<variableInternalContext, shownMenu, menuContext>>
    /\ menuEvent' = v
    /\ UNCHANGED <<dataBreakpointInfoResponse, lastCommand>>
    /\ UNCHANGED <<refreshVars, editVars, rowVars>>

\* A context-menu event on the row of a Variable that has a value.
OpenContextMenu(v) == v \in Variables /\ OpenContextMenuFor(v)

\* The elements a context-menu event of the tree can carry here: the scopes,
\* an ErrorScope, the expressions, and u, a Variable whose value is ''.
MenuTargets == Scopes \cup ErrorScopes \cup Expressions \cup EmptyValued

\* !(variable instanceof Variable) || !variable.value  =>  return
IsMenuVariable_IgnoresValue(e) == e \in Variables \cup EmptyValued
IsMenuVariable(e) == e \in Variables \cup EmptyValued /\ e \notin EmptyValued

\* VariablesView.onContextMenu(e) with e.element = e.
OnContextMenu(e) ==
    /\ e \in MenuTargets
    /\ IF IsMenuVariable(e)
       THEN OpenContextMenuFor(e)
       ELSE /\ menuEvent' = e
            /\ UNCHANGED <<variableInternalContext,
                           dataBreakpointInfoResponse, infoRequests,
                           shownMenu, menuContext, opened, lastCommand>>
            /\ UNCHANGED <<refreshVars, editVars, rowVars>>

\* dataBreakpointInfoResponse = await session.dataBreakpointInfo(...) resumes
\* with r; the context is built and the menu is shown (lines 285-307, 253-261).
InfoResponse(i, r) ==
    /\ i \in 1..Len(infoRequests)
    /\ r \in ResponsesFor(infoRequests[i].variable)
    /\ dataBreakpointInfoResponse' = r
    /\ getContextForVariableMenuBase(infoRequests[i].variable)
    /\ shownMenu' = infoRequests[i].variable
    /\ menuContext' = DataAccessContextKeys(r)
    /\ opened' = IF infoRequests[i].latest
                 THEN [opened EXCEPT !.response = r, !.pending = FALSE]
                 ELSE opened
    /\ infoRequests' = RemoveAt(infoRequests, i)
    /\ UNCHANGED <<lastCommand, menuEvent>>
    /\ UNCHANGED <<refreshVars, editVars, rowVars>>

\* The request rejected: openContextMenuForVariableTreeElement throws out of
\* its try block and no menu is shown.
InfoRejected(i) ==
    /\ i \in 1..Len(infoRequests)
    /\ opened' = IF infoRequests[i].latest
                 THEN [opened EXCEPT !.pending = FALSE] ELSE opened
    /\ infoRequests' = RemoveAt(infoRequests, i)
    /\ UNCHANGED <<variableInternalContext, dataBreakpointInfoResponse,
                   shownMenu, menuContext, menuEvent, lastCommand>>
    /\ UNCHANGED <<refreshVars, editVars, rowVars>>

\* viz.original of the visualized expression v.
Original(e) == IF e \in Visualized THEN "y" ELSE e

\* VariablesRenderer.renderActionBar / VisualizedVariableRenderer
\* .renderActionBar: a row is rendered.
RenderActionBar(e) ==
    /\ e \in Expressions
    /\ getContextForVariableMenuBase(Original(e))
    /\ UNCHANGED <<dataBreakpointInfoResponse, infoRequests, shownMenu,
                   menuContext, opened, menuEvent, lastCommand>>
    /\ UNCHANGED <<refreshVars, editVars, rowVars>>

\* The user closes the context menu without choosing an entry.
DismissMenu ==
    /\ shownMenu # Null
    /\ shownMenu' = Null
    /\ menuContext' = {}
    /\ UNCHANGED <<variableInternalContext, dataBreakpointInfoResponse,
                   infoRequests, opened, menuEvent, lastCommand>>
    /\ UNCHANGED <<refreshVars, editVars, rowVars>>

\* The record kept of a command dispatched from the shown context menu: the
\* menu's variable and the variable the command acted on.
MenuCommand(id) ==
    Some([id |-> id, menu |-> shownMenu, target |-> variableInternalContext,
          response |-> None, expected |-> None, pending |-> FALSE,
          added |-> <<>>])

\* accessType: 'write' / 'readWrite' / 'read' in the three handlers.
AccessTypeOf_ReadSwapped(id) ==
    IF id = "debug.breakWhenValueChanges" THEN "write"
    ELSE IF id = "debug.breakWhenValueIsAccessed" THEN "read"
    ELSE "readWrite"
AccessTypeOf(id) ==
    IF id = "debug.breakWhenValueChanges" THEN "write"
    ELSE IF id = "debug.breakWhenValueIsAccessed" THEN "readWrite"
    ELSE "read"

\* The calls of debugService.addDataBreakpoint a handler makes:
\* if (dataBreakpointInfoResponse) { await debugService.addDataBreakpoint(
\*   { description, src: { type, dataId: ...dataId! },
\*     canPersist: !!...canPersist, accessTypes, accessType }) }
AddedDataBreakpoints(id, response) ==
    IF response = None THEN <<>>
    ELSE <<[description |-> response[1].description,
            dataId |-> response[1].dataId,
            canPersist |-> (response[1].canPersist = Some(TRUE)),
            accessTypes |-> response[1].accessTypes,
            accessType |-> AccessTypeOf(id)]>>

\* The record kept of a data-breakpoint command: the response it read, the
\* response obtained for the menu opened last, whether that menu's request
\* was still in flight, and the data breakpoints it added.
DataCommand(id) ==
    Some([id |-> id, menu |-> Null, target |-> Null,
          response |-> dataBreakpointInfoResponse,
          expected |-> opened.response, pending |-> opened.pending,
          added |-> AddedDataBreakpoints(id, dataBreakpointInfoResponse)])

\* SET_VARIABLE_ID, chosen in the shown context menu.
SetVariableCommand ==
    /\ shownMenu # Null
    /\ setSelectedExpression(variableInternalContext)
    /\ lastCommand' = MenuCommand("debug.setVariable")
    /\ shownMenu' = Null
    /\ menuContext' = {}
    /\ UNCHANGED <<variableInternalContext, dataBreakpointInfoResponse,
                   infoRequests, opened, menuEvent>>
    /\ UNCHANGED <<forgetScopes, edits, lastUpdate, inputVars>>
    /\ UNCHANGED <<refreshVars, rowVars>>

\* COPY_VALUE_ID with an IVariablesContext argument, chosen in the shown
\* context menu: elements = variableInternalContext ? [it] : [].
CopyValueCommand ==
    /\ shownMenu # Null
    /\ lastCommand' = MenuCommand("copyValue")
    /\ shownMenu' = Null
    /\ menuContext' = {}
    /\ UNCHANGED <<variableInternalContext, dataBreakpointInfoResponse,
                   infoRequests, opened, menuEvent>>
    /\ UNCHANGED <<refreshVars, editVars, rowVars>>

BreakCommands == {"debug.breakWhenValueChanges",
                  "debug.breakWhenValueIsAccessed",
                  "debug.breakWhenValueIsRead"}

\* BREAK_WHEN_VALUE_CHANGES_ID / _IS_ACCESSED_ID / _IS_READ_ID: the handler
\* reads the module's dataBreakpointInfoResponse.  The commands are
\* registered with CommandsRegistry.registerCommand: any caller can execute
\* them, whether or not a context menu shows an entry for them.
BreakWhenCommand(id) ==
    /\ id \in BreakCommands
    /\ lastCommand' = DataCommand(id)
    /\ shownMenu' = Null
    /\ menuContext' = {}
    /\ UNCHANGED <<variableInternalContext, dataBreakpointInfoResponse,
                   infoRequests, opened, menuEvent>>
    /\ UNCHANGED <<refreshVars, editVars, rowVars>>

\* ------------------------------------------- data source and delegate --
\* The classes of the elements the tree hands to the data source and to the
\* delegate; an ErrorScope is a Scope.  The class "null" stands for the
\* null input.
Classes == {"StackFrame", "Scope", "ErrorScope", "Variable",
            "VisualizedExpression", "Expression"}
\* An element: its class and its own hasChildren property.
Elements == [class : Classes, hasChildren : BOOLEAN]
NullElement == [class |-> "null", hasChildren |-> FALSE]

\* obj instanceof c
InstanceOf(obj, c) ==
    \/ obj.class = c
    \/ obj.class = "ErrorScope" /\ c = "Scope"

\* function isStackFrame(obj): obj instanceof StackFrame
isStackFrame(obj) == InstanceOf(obj, "StackFrame")

\* VariablesDataSource.hasChildren(element)
hasChildren_FrameByProperty(element) ==
    IF element = NullElement THEN FALSE ELSE element.hasChildren
hasChildren(element) ==
    IF element = NullElement THEN FALSE
    ELSE IF isStackFrame(element) THEN TRUE
    ELSE element.hasChildren

\* VariablesDataSource.doGetChildren(element): the request it returns.
doGetChildren(element) ==
    IF isStackFrame(element)
    THEN [method |-> "getScopes", on |-> element]
    ELSE [method |-> "getChildren", on |-> element]

\* ScopesRenderer.ID, ScopeErrorRenderer.ID, VisualizedVariableRenderer.ID,
\* VariablesRenderer.ID
ScopesRendererID == "scope"
ScopeErrorRendererID == "scopeError"
VisualizedVariableRendererID == "viz"
VariablesRendererID == "variable"

\* The templateId of the renderers handed to the tree, in the order of the
\* list: VariablesRenderer, VisualizedVariableRenderer, ScopesRenderer,
\* ScopeErrorRenderer.
Renderers == <<VariablesRendererID, VisualizedVariableRendererID,
               ScopesRendererID, ScopeErrorRendererID>>

\* VariablesDelegate.getTemplateId(element)
getTemplateId_ScopeFirst(element) ==
    IF InstanceOf(element, "Scope") THEN ScopesRendererID
    ELSE IF InstanceOf(element, "ErrorScope") THEN ScopeErrorRendererID
    ELSE IF InstanceOf(element, "VisualizedExpression")
         THEN VisualizedVariableRendererID
    ELSE VariablesRendererID
getTemplateId(element) ==
    IF InstanceOf(element, "ErrorScope") THEN ScopeErrorRendererID
    ELSE IF InstanceOf(element, "Scope") THEN ScopesRendererID
    ELSE IF InstanceOf(element, "VisualizedExpression")
         THEN VisualizedVariableRendererID
    ELSE VariablesRendererID

\* The tree asks the data source whether an element (or the null input) has
\* children.
AskHasChildren(element) ==
    /\ element \in Elements \cup {NullElement}
    /\ lastCall' = Some([fn |-> "hasChildren", element |-> element,
                         result |-> <<hasChildren(element)>>])
    /\ UNCHANGED <<refreshVars, editVars, menuVars, asyncVars>>

\* The tree asks the data source for the children of an element.
FetchChildren(element) ==
    /\ element \in Elements
    /\ lastCall' = Some([fn |-> "doGetChildren", element |-> element,
                         result |-> <<doGetChildren(element)>>])
    /\ UNCHANGED <<refreshVars, editVars, menuVars, asyncVars>>

\* The tree asks the delegate for the template of a row: a scope or an
\* expression.
RenderRow(element) ==
    /\ element \in Elements /\ ~isStackFrame(element)
    /\ lastCall' = Some([fn |-> "getTemplateId", element |-> element,
                         result |-> <<getTemplateId(element)>>])
    /\ UNCHANGED <<refreshVars, editVars, menuVars, asyncVars>>

\* ------------------------------------------- lazy-expression listener --
\* The elements a lazy-expression event can carry here: the lazy Variable l,
\* the Variables x and z, the VisualizedExpression v, the scope F.locals.
LazyTargets == LazyVariables \cup {"x", "z", "v", "F.locals"}

\* The first call the listener awaits.
FirstAwait_Expand == "expand"
FirstAwait == "updateChildren"

\* getViewModel().onDidEvaluateLazyExpression(async e => ...): up to the
\* first await, where tree.updateChildren(e, false, true) has been called.
OnDidEvaluateLazyExpression(e) ==
    /\ ~disposed
    /\ e \in LazyTargets
    /\ lazyEvent' = e
    /\ IF IsVariable(e) /\ hasNode(e)
       THEN /\ Len(lazyRuns) < MaxAsync
            /\ lazyRuns' = Append(lazyRuns, [element |-> e,
                                             awaiting |-> FirstAwait,
                                             refreshed |-> FALSE])
       ELSE UNCHANGED lazyRuns
    /\ UNCHANGED <<childrenRefreshed, lastCall, copyVars, memoryVars>>
    /\ UNCHANGED <<refreshVars, editVars, menuVars>>

\* await this.tree.updateChildren(e, false, true) resumes: the children of e
\* have been refreshed, and tree.expand(e) is called.
UpdateChildrenDone(i) ==
    /\ i \in 1..Len(lazyRuns)
    /\ lazyRuns[i].awaiting = "updateChildren"
    /\ childrenRefreshed' = childrenRefreshed \cup {lazyRuns[i].element}
    /\ lazyRuns' = [lazyRuns EXCEPT ![i].awaiting = "expand",
                                    ![i].refreshed = TRUE]
    /\ UNCHANGED <<lazyEvent, lastCall, copyVars, memoryVars>>
    /\ UNCHANGED <<refreshVars, editVars, menuVars>>

\* await this.tree.expand(e) resumes: e is expanded when it still is a node
\* of the tree, and the listener returns.
LazyExpandDone(i) ==
    /\ i \in 1..Len(lazyRuns)
    /\ lazyRuns[i].awaiting = "expand"
    /\ treeExpanded' = IF hasNode(lazyRuns[i].element)
                       THEN treeExpanded \cup {lazyRuns[i].element}
                       ELSE treeExpanded
    /\ lazyRuns' = RemoveAt(lazyRuns, i)
    /\ UNCHANGED <<childrenRefreshed, lazyEvent, lastCall, copyVars,
                   memoryVars>>
    /\ UNCHANGED <<focused, disposed, visible, needsRefresh, savedViewState,
                   autoExpandedScopes, timerQueue, runs, treeInput,
                   treeLoaded, userWish, lastDone, unserved>>
    /\ UNCHANGED <<editVars, menuVars>>

\* ------------------------------------------------------- copy value -----
\* Texts are sequences of pieces, the empty text is <<>>.
\* a+b is a watch Expression.
WatchExpressions == {"a+b"}

\* element.value, element.evaluateName and element.name: x has an
\* evaluateName, y and u have none, u has the empty value.
value(e) ==
    IF e = "x" THEN <<"1">>
    ELSE IF e = "y" THEN <<"2">>
    ELSE IF e = "a+b" THEN <<"3">>
    ELSE <<>>
evaluateName(e) == IF e = "x" THEN <<"this.x">> ELSE <<>>
name(e) == <<e>>

\* element instanceof Variable ? (element.evaluateName || element.value)
\*                             : element.name
ToEvaluate_ValueFirst(e) ==
    IF IsVariable(e)
    THEN IF value(e) # <<>> THEN value(e) ELSE evaluateName(e)
    ELSE name(e)
ToEvaluate(e) ==
    IF IsVariable(e)
    THEN IF evaluateName(e) # <<>> THEN evaluateName(e) ELSE value(e)
    ELSE name(e)

\* session.capabilities.supportsClipboardContext ? 'clipboard' : elementContext
EvalContext(supportsClipboardContext, elementContext) ==
    IF supportsClipboardContext THEN "clipboard" ELSE elementContext

\* What session.evaluate(expr, frameId, context) may do: reject, resolve to
\* undefined, resolve to a response whose result is empty, or to one whose
\* result names the expression and the context it was evaluated in.
Rejected == <<"rejected">>
Undefined == <<"undefined">>
Response(result) == <<"response", result>>
ResultOf(expr, context) == <<"=">> \o expr \o <<"@", context>>
Evaluations(expr, context) ==
    {Rejected, Undefined, Response(<<>>), Response(ResultOf(expr, context))}

\* coalesce(array): the array without its undefined entries.
IsDefined(evaluation) == evaluation # Undefined
coalesce(array) == SelectSeq(array, IsDefined)

\* texts.join('\n')
RECURSIVE Join(_)
Join(texts) ==
    IF texts = <<>> THEN <<>>
    ELSE IF Len(texts) = 1 THEN texts[1]
    ELSE texts[1] \o <<"\n">> \o Join(Tail(texts))

\* The arguments the command is called with: an IVariablesContext (from the
\* variables view's menu), or an Expression with the selection ctx of the
\* watch view, which may be missing.
CopyArgs == {"IVariablesContext", "a+b"}
CopySelections == {None, Some(<<"x">>), Some(<<"a+b", "y">>)}

\* elementContext and elements as the handler's first lines compute them.
ElementContext(arg) ==
    IF IsVariable(arg) \/ arg \in WatchExpressions THEN "watch"
    ELSE "variables"
CopyElements(arg, ctx) ==
    IF IsVariable(arg) \/ arg \in WatchExpressions
    THEN IF ctx # None THEN ctx[1] ELSE <<>>
    ELSE IF variableInternalContext # Null
         THEN <<variableInternalContext>> ELSE <<>>

\* COPY_VALUE_ID's handler up to its await: returns when no frame is
\* focused (and with it no session) or there is nothing to copy, otherwise
\* sends one evaluate request for each element.
CopyValue(arg, ctx, supportsClipboardContext) ==
    /\ arg \in CopyArgs /\ ctx \in CopySelections
    /\ LET elements == CopyElements(arg, ctx)
       IN  IF focused = Null \/ Len(elements) = 0
           THEN /\ lastCopy' = Some([awaited |-> FALSE, wrote |-> None])
                /\ UNCHANGED copyRuns
           ELSE /\ Len(copyRuns) < MaxAsync
                /\ copyRuns' = Append(copyRuns,
                      [elements |-> elements,
                       toEvaluate |-> [k \in 1..Len(elements) |->
                                         ToEvaluate(elements[k])],
                       evalContext |-> EvalContext(supportsClipboardContext,
                                                   ElementContext(arg)),
                       frame |-> focused])
                /\ UNCHANGED lastCopy
    /\ UNCHANGED <<lastCall, lazyVars, memoryVars>>
    /\ UNCHANGED <<refreshVars, editVars, menuVars>>

\* What the handler writes once Promise.all has settled with `evaluations`:
\* the results of the defined evaluations joined, nothing when there is
\* none; the elements' values joined when an evaluation rejected.
CopyWrites(run, evaluations) ==
    IF \E k \in 1..Len(evaluations) : evaluations[k] = Rejected
    THEN Some(Join([k \in 1..Len(run.elements) |-> value(run.elements[k])]))
    ELSE LET defined == coalesce(evaluations)
             result == [k \in 1..Len(defined) |-> defined[k][2]]
         IN  IF Len(result) # 0 THEN Some(Join(result)) ELSE None

\* await Promise.all(...) of run i settles with `evaluations`.
CopyEvaluated(i, evaluations) ==
    /\ i \in 1..Len(copyRuns)
    /\ DOMAIN evaluations = 1..Len(copyRuns[i].elements)
    /\ \A k \in DOMAIN evaluations :
          evaluations[k] \in Evaluations(copyRuns[i].toEvaluate[k],
                                         copyRuns[i].evalContext)
    /\ lastCopy' = Some([awaited |-> TRUE,
                         wrote |-> CopyWrites(copyRuns[i], evaluations)])
    /\ copyRuns' = RemoveAt(copyRuns, i)
    /\ UNCHANGED <<lastCall, lazyVars, memoryVars>>
    /\ UNCHANGED <<refreshVars, editVars, menuVars>>

\* Every way the evaluations of run i can settle.
Settlements(i) ==
    {ev \in [1..Len(copyRuns[i].elements) ->
               UNION {Evaluations(copyRuns[i].toEvaluate[k],
                                  copyRuns[i].evalContext) :
                      k \in 1..Len(copyRuns[i].elements)}] :
       \A k \in DOMAIN ev :
          ev[k] \in Evaluations(copyRuns[i].toEvaluate[k],
                                copyRuns[i].evalContext)}

\* ------------------------------------------------------- view memory ----
\* The arguments of the command: an IVariablesContext with or without a
\* sessionId and a memoryReference of its variable, or an IExpression with
\* or without a memoryReference.
MemoryArgs ==
    [kind : {"IVariablesContext", "IExpression"},
     sessionId : BOOLEAN, memoryReference : BOOLEAN]

\* Whether the handler gets past its early returns.
HasTarget(arg) ==
    IF arg.kind = "IVariablesContext"
    THEN arg.sessionId /\ arg.memoryReference
    ELSE arg.memoryReference /\ focused # Null

\* VIEW_MEMORY_ID's handler up to its first await: extensionService
\* .getExtension(HEX_EDITOR_EXTENSION_ID) has been called.
ViewMemory(arg) ==
    /\ arg \in MemoryArgs
    /\ LET run == [arg |-> arg, hasSession |-> focused # Null,
                   awaiting |-> "getExtension",
                   ext |-> None, installed |-> None, notified |-> FALSE,
                   telemetry |-> FALSE, editor |-> FALSE]
       IN  IF ~HasTarget(arg)
           THEN /\ lastMemory' = Some([run EXCEPT !.awaiting = "returned"])
                /\ UNCHANGED memoryRuns
           ELSE /\ Len(memoryRuns) < MaxAsync
                /\ memoryRuns' = Append(memoryRuns, run)
                /\ UNCHANGED lastMemory
    /\ UNCHANGED <<lastCall, lazyVars, copyVars>>
    /\ UNCHANGED <<refreshVars, editVars, menuVars>>

\* telemetryService.publicLog(...); await editorService.openEditor(...)
LogsAndOpens(run) ==
    [run EXCEPT !.telemetry = TRUE, !.editor = TRUE, !.awaiting = "openEditor"]

\* await extensionService.getExtension(...) resumes with the extension
\* (ext) or without it: the editor is opened, or tryInstallHexEditor calls
\* extensionsWorkbenchService.install(...).
GetExtensionDone(i, ext) ==
    /\ i \in 1..Len(memoryRuns)
    /\ memoryRuns[i].awaiting = "getExtension"
    /\ LET run == [memoryRuns[i] EXCEPT !.ext = Some(ext)]
       IN  memoryRuns' =
             [memoryRuns EXCEPT ![i] =
                IF ext THEN LogsAndOpens(run)
                ELSE [run EXCEPT !.awaiting = "install"]]
    /\ UNCHANGED <<lastMemory, lastCall, lazyVars, copyVars>>
    /\ UNCHANGED <<refreshVars, editVars, menuVars>>

\* tryInstallHexEditor: true when install resolved, false from the catch.
TryInstallResult_AlwaysTrue(resolved) == TRUE
TryInstallResult(resolved) == resolved

\* await extensionsWorkbenchService.install(...) settles: resolved, the
\* editor is opened; rejected, the error goes to notificationService.error
\* and the handler returns.
InstallDone(i, resolved) ==
    /\ i \in 1..Len(memoryRuns)
    /\ memoryRuns[i].awaiting = "install"
    /\ LET run == [memoryRuns[i] EXCEPT !.installed = Some(resolved),
                                        !.notified = ~resolved]
       IN  IF TryInstallResult(resolved)
           THEN /\ memoryRuns' = [memoryRuns EXCEPT ![i] = LogsAndOpens(run)]
                /\ UNCHANGED lastMemory
           ELSE /\ memoryRuns' = RemoveAt(memoryRuns, i)
                /\ lastMemory' = Some([run EXCEPT !.awaiting = "returned"])
    /\ UNCHANGED <<lastCall, lazyVars, copyVars>>
    /\ UNCHANGED <<refreshVars, editVars, menuVars>>

\* await editorService.openEditor(...) resumes and the handler returns.
OpenEditorDone(i) ==
    /\ i \in 1..Len(memoryRuns)
    /\ memoryRuns[i].awaiting = "openEditor"
    /\ memoryRuns' = RemoveAt(memoryRuns, i)
    /\ lastMemory' = Some([memoryRuns[i] EXCEPT !.awaiting = "returned"])
    /\ UNCHANGED <<lastCall, lazyVars, copyVars>>
    /\ UNCHANGED <<refreshVars, editVars, menuVars>>

\* ------------------------------------------------------- specification ----
\* The view after its constructor and renderBody ran:
\* this.tree.setInput(getViewModel().focusedStackFrame ?? null).
InitRefresh(frames) ==
    /\ focused \in frames
    /\ disposed = FALSE
    /\ visible = TRUE
    /\ needsRefresh = FALSE
    /\ savedViewState = EmptyMap
    /\ autoExpandedScopes = {}
    /\ timerQueue = <<>>
    /\ runs = <<>>
    /\ treeInput = focused
    /\ treeLoaded = focused
    /\ treeExpanded = {}
    /\ userWish = [s \in Scopes |-> "none"]
    /\ lastDone = None
    /\ unserved = FALSE

\* The module-level variables as declared (lines 53-56), no row selected, no
\* request in flight; the tree's scrolling option comes from the settings.
InitEdit(scrolling) ==
    /\ forgetScopes = TRUE
    /\ selectedExpression = Null
    /\ horizontalScrolling = None
    /\ treeHorizontalScrolling \in scrolling
    /\ edits = 0
    /\ scrollBefore = None
    /\ lastUpdate = None
    /\ dblClicked = Null
    /\ errorMessage = {}
    /\ lastFinish = None

InitMenu ==
    /\ variableInternalContext = Null
    /\ dataBreakpointInfoResponse = None
    /\ infoRequests = <<>>
    /\ shownMenu = Null
    /\ menuContext = {}
    /\ menuEvent = Null
    /\ opened = [variable |-> Null, response |-> None, pending |-> FALSE]
    /\ lastCommand = None

\* The tree has not called the data source or the delegate yet.
InitRows ==
    /\ lastCall = None
    /\ lazyRuns = <<>>
    /\ childrenRefreshed = {}
    /\ lazyEvent = Null
    /\ copyRuns = <<>>
    /\ lastCopy = None
    /\ memoryRuns = <<>>
    /\ lastMemory = None

\* The view as constructed, with whichever frame is focused at that time.
Init == InitRefresh(MaybeFrame) /\ InitEdit({TRUE}) /\ InitMenu /\ InitRows

\* The same, with either value of the workbench's horizontal-scrolling setting.
InitScrolling ==
    InitRefresh(MaybeFrame) /\ InitEdit(BOOLEAN) /\ InitMenu /\ InitRows

\* The same, constructed while frame F is focused.
InitFocused == InitRefresh({"F"}) /\ InitEdit({TRUE}) /\ InitMenu /\ InitRows

\* The events of the refresh policy: focus changes, visibility, session end,
\* disposal, the clock, and the steps of the refresh task.
NextRefresh ==
    \/ \E f \in MaybeFrame, explicit \in BOOLEAN : OnDidFocusStackFrame(f, explicit)
    \/ \E v \in BOOLEAN : OnDidChangeBodyVisibility(v)
    \/ OnDidEndSession
    \/ Dispose
    \/ Tick
    \/ \E i \in 1..Len(timerQueue) : Len(runs) < MaxRuns /\ OnTimeout(i)
    \/ \E i \in 1..Len(runs) : SetInputDone(i)
    \/ \E i \in 1..Len(runs) : GetScopesDone(i)
    \/ \E i \in 1..Len(runs) : ExpandDone(i)

SpecRefresh == Init /\ [][NextRefresh]_vars

\* The refresh policy followed up to the start of each run.  The awaited
\* steps of a run write none of timerQueue, needsRefresh, visible and
\* disposed, so here a run finishes before the next timer fires.
TimerFires == \E i \in 1..Len(timerQueue) : runs = <<>> /\ OnTimeout(i)
TaskResumes ==
    \E i \in 1..Len(runs) : SetInputDone(i) \/ GetScopesDone(i) \/ ExpandDone(i)

NextLive ==
    \/ \E f \in MaybeFrame, explicit \in BOOLEAN : OnDidFocusStackFrame(f, explicit)
    \/ \E v \in BOOLEAN : OnDidChangeBodyVisibility(v)
    \/ OnDidEndSession
    \/ Dispose
    \/ Tick
    \/ TimerFires
    \/ TaskResumes

\* What the host guarantees: the clock advances, a timer whose delay has
\* elapsed fires, and an awaited promise of the refresh task settles.
SpecSchedule == Init /\ [][NextLive]_vars

SpecRefreshLive ==
    /\ SpecSchedule
    /\ WF_vars(Tick) /\ WF_vars(TimerFires) /\ WF_vars(TaskResumes)

\* The refresh task under focus changes from frame to frame alone: the body
\* stays visible, and a timer may fire while an earlier run is suspended at
\* an await.
NextOverlap ==
    \/ \E f \in Frames, explicit \in BOOLEAN : OnDidFocusStackFrame(f, explicit)
    \/ Tick
    \/ \E i \in 1..Len(timerQueue) : Len(runs) < MaxOverlap /\ OnTimeout(i)
    \/ \E i \in 1..Len(runs) : SetInputDone(i)
    \/ \E i \in 1..Len(runs) : GetScopesDone(i)
    \/ \E i \in 1..Len(runs) : ExpandDone(i)

SpecOverlap == Init /\ [][NextOverlap]_vars

\* The events of the view-state cache: the user expands and collapses scopes
\* of a visible view while focus changes refresh the tree.
NextCache ==
    \/ \E f \in MaybeFrame, explicit \in BOOLEAN : OnDidFocusStackFrame(f, explicit)
    \/ OnDidEndSession
    \/ Tick
    \/ \E s \in Scopes : UserCollapse(s)
    \/ \E s \in Scopes : UserExpand(s)
    \/ \E i \in 1..Len(timerQueue) : Len(runs) < MaxRuns /\ OnTimeout(i)
    \/ \E i \in 1..Len(runs) : SetInputDone(i)
    \/ \E i \in 1..Len(runs) : GetScopesDone(i)
    \/ \E i \in 1..Len(runs) : ExpandDone(i)

SpecCache == Init /\ [][NextCache]_vars

\* The events of value editing: rows are expanded and double-clicked, input
\* boxes are closed, edit requests complete, views are updated.
NextEdit ==
    \/ \E s \in Scopes : UserCollapse(s)
    \/ \E s \in Scopes : UserExpand(s)
    \/ \E e \in Expressions : OnMouseDblClick(e)
    \/ \E success \in BOOLEAN, changed \in BOOLEAN : InputBoxFinish(success, changed)
    \/ EditResolved
    \/ EditRejected
    \/ UpdateViews
    \/ Dispose

SpecEdit == InitScrolling /\ [][NextEdit]_vars

\* Double-clicks on every kind of row while the focus moves and the user
\* expands and collapses scopes.
NextDblClick ==
    \/ \E f \in MaybeFrame : OnDidFocusStackFrame(f, TRUE)
    \/ \E s \in Scopes : UserExpand(s)
    \/ \E s \in Scopes : UserCollapse(s)
    \/ \E e \in DblClickTargets : OnMouseDblClick(e)

SpecDblClick == InitFocused /\ [][NextDblClick]_vars

\* Lazy-expression events on rows and other elements while the user expands
\* and collapses scopes.
NextLazy ==
    \/ \E s \in Scopes : UserExpand(s)
    \/ \E s \in Scopes : UserCollapse(s)
    \/ \E e \in LazyTargets : OnDidEvaluateLazyExpression(e)
    \/ \E i \in 1..Len(lazyRuns) : UpdateChildrenDone(i)
    \/ \E i \in 1..Len(lazyRuns) : LazyExpandDone(i)

SpecLazy == InitFocused /\ [][NextLazy]_vars

\* The copy-value command, called from the variables view's menu and from
\* the watch view, while rows are rendered; the focused frame may go away
\* at any point.
NextCopy ==
    \/ OnDidFocusStackFrame(Null, TRUE)
    \/ \E e \in {"x", "v"} : RenderActionBar(e)
    \/ \E arg \in CopyArgs, ctx \in CopySelections, supports \in BOOLEAN :
          CopyValue(arg, ctx, supports)
    \/ \E i \in 1..Len(copyRuns) :
          \E evaluations \in Settlements(i) : CopyEvaluated(i, evaluations)

SpecCopy == InitFocused /\ [][NextCopy]_vars

\* The view-memory command with every kind of argument, with and without
\* the hex editor extension; the focused frame may go away at any point.
NextMemory ==
    \/ OnDidFocusStackFrame(Null, TRUE)
    \/ \E arg \in MemoryArgs : ViewMemory(arg)
    \/ \E i \in 1..Len(memoryRuns), ext \in BOOLEAN : GetExtensionDone(i, ext)
    \/ \E i \in 1..Len(memoryRuns), resolved \in BOOLEAN : InstallDone(i, resolved)
    \/ \E i \in 1..Len(memoryRuns) : OpenEditorDone(i)

SpecMemory == InitFocused /\ [][NextMemory]_vars

\* Edits of x and v from start to end: the rows are double-clicked, the
\* input box is closed, the request it sent fails, resolves or rejects; the
\* focused frame may go away at any point.
NextEditing ==
    \/ OnDidFocusStackFrame(Null, TRUE)
    \/ UserExpand("F.locals")
    \/ \E e \in {"x", "v"} : OnMouseDblClick(e)
    \/ \E success \in BOOLEAN, changed \in BOOLEAN : InputBoxFinish(success, changed)
    \/ SetVariableFailed
    \/ EditResolved
    \/ EditRejected

SpecEditing == InitFocused /\ [][NextEditing]_vars

\* The events of the context menus: menus are opened, dataBreakpointInfo
\* requests complete, rows are rendered, commands are dispatched.
NextMenu ==
    \/ \E v \in Variables : OpenContextMenu(v)
    \/ \E i \in 1..Len(infoRequests) :
          \E r \in ResponsesFor(infoRequests[i].variable) : InfoResponse(i, r)
    \/ \E i \in 1..Len(infoRequests) : InfoRejected(i)
    \/ \E e \in Expressions : RenderActionBar(e)
    \/ DismissMenu
    \/ SetVariableCommand
    \/ CopyValueCommand
    \/ \E id \in BreakCommands : BreakWhenCommand(id)

SpecMenu == InitFocused /\ [][NextMenu]_vars

\* The events of the data-breakpoint commands: menus are opened, their
\* dataBreakpointInfo requests complete, and the commands are executed.
NextBreak ==
    \/ \E v \in Variables : OpenContextMenu(v)
    \/ \E i \in 1..Len(infoRequests) :
          \E r \in ResponsesFor(infoRequests[i].variable) : InfoResponse(i, r)
    \/ \E i \in 1..Len(infoRequests) : InfoRejected(i)
    \/ DismissMenu
    \/ \E id \in BreakCommands : BreakWhenCommand(id)

SpecBreak == InitFocused /\ [][NextBreak]_vars

\* The context-menu events of the tree, on any of its rows, while rows are
\* rendered and dataBreakpointInfo requests complete.
NextContextMenu ==
    \/ \E e \in MenuTargets : OnContextMenu(e)
    \/ \E i \in 1..Len(infoRequests) :
          \E r \in ResponsesFor(infoRequests[i].variable) : InfoResponse(i, r)
    \/ \E i \in 1..Len(infoRequests) : InfoRejected(i)
    \/ \E e \in Expressions : RenderActionBar(e)
    \/ DismissMenu

SpecContextMenu == InitFocused /\ [][NextContextMenu]_vars

\* The tree at work: explicit focus changes refresh it, and it calls the
\* data source and the delegate for the elements it meets.
NextRows ==
    \/ \E f \in Frames : OnDidFocusStackFrame(f, TRUE)
    \/ TimerFires
    \/ TaskResumes
    \/ \E element \in Elements \cup {NullElement} : AskHasChildren(element)
    \/ \E element \in Elements : FetchChildren(element)
    \/ \E element \in Elements : RenderRow(element)

SpecRows == InitFocused /\ [][NextRows]_vars

\* ================================================================ claims ==

\* A step in which a run of the refresh task starts / in which run i returns.
RunStarts == Len(runs') > Len(runs)
RunReturns(i) == i \in 1..Len(runs) /\ runs' = RemoveAt(runs, i)

\* C1: while the body is visible every focus-change event reschedules the one
\* refresh timer: at most one refresh is pending at any moment, a handled
\* focus event leaves exactly one pending, and when the timer fires nothing
\* stays pending, so the events that arrived before it cause one run.
C1_OneRefreshPending ==
    [][ /\ Len(timerQueue') <= 1
        /\ (/\ ~disposed /\ visible
            /\ \E f \in MaybeFrame, explicit \in BOOLEAN :
                  OnDidFocusStackFrame(f, explicit))
           => Len(timerQueue') = 1
        /\ RunStarts => timerQueue' = <<>> ]_vars

\* C1 witness: a focus event replaced a pending timer and one timer is pending.
C1_Witness ==
    /\ Len(timerQueue) = 1
    /\ timerQueue[1].coalesced
    /\ timerQueue[1].by \in {"explicit", "stepping"}

\* C2: once the view is disposed the refresh task never starts again.
C2_NoRunAfterDisposal ==
    [][ disposed => ~RunStarts ]_vars

\* C3: a focus event handled while the body is visible schedules the refresh
\* with delay 0 when it is explicit and with the default 400 ms otherwise.
C3_DelayByExplicit ==
    \A i \in 1..Len(timerQueue) :
        /\ timerQueue[i].by = "explicit" => timerQueue[i].delay = 0
        /\ timerQueue[i].by = "stepping" => timerQueue[i].delay = DefaultDelay

\* C3 witness: a stepping-induced focus event has its 400 ms refresh pending.
C3_Witness ==
    /\ Len(timerQueue) = 1
    /\ timerQueue[1].by = "stepping"
    /\ timerQueue[1].left = DefaultDelay

\* C4: when a refresh returns, every scope of the displayed frame that the
\* user collapsed before the refresh started (no session ended since) is
\* collapsed, and every one the user expanded is expanded.
C4_ExpansionPreserved ==
    [][ \A i \in 1..Len(runs) :
          (RunReturns(i) /\ ~runs[i].touched /\ runs[i].stackFrame # Null)
          => WishesKept(runs[i].stackFrame, treeExpanded') ]_vars

\* C5: a run of the refresh task stores the tree's view state under the id
\* of the tree's input (when it is not null) and nowhere else, makes the
\* focused frame the input, and hands the tree the view state last stored
\* under the focused frame's id (none if none is stored).
C5_CacheRoundTrip ==
    [][ RunStarts =>
          /\ \A f \in Frames :
                savedViewState'[f] = IF f = treeInput THEN Some(getViewState)
                                     ELSE savedViewState[f]
          /\ treeInput' = focused
          /\ runs'[Len(runs')].viewState =
                IF focused = Null THEN None
                ELSE IF focused = treeInput THEN Some(getViewState)
                ELSE savedViewState[focused] ]_vars

\* C5 witness: F was displayed, then G, and the run that displays F again was
\* handed the view state captured when F was left.
C5_Witness ==
    /\ treeLoaded = "G"
    /\ \E i \in 1..Len(runs) :
          /\ runs[i].pc = "setInput"
          /\ runs[i].stackFrame = "F"
          /\ runs[i].viewState = Some([expanded |-> {"F.locals"}])

\* C6: when the selection is cleared after one or more selections of rows of
\* the tree, the tree's horizontalScrolling option is what it was before the
\* first of them.
C6_ScrollRestored ==
    [][ (scrollBefore # None /\ scrollBefore' = None)
        => treeHorizontalScrolling' = scrollBefore[1] ]_vars

\* C7: debug.setVariable and copy-value dispatched from a variable's context
\* menu act on the variable whose menu it is.
C7_CommandTarget ==
    (lastCommand # None /\ lastCommand[1].id \in {"debug.setVariable", "copyValue"})
    => lastCommand[1].target = lastCommand[1].menu

\* C8: a data-breakpoint command reads the response obtained for the variable
\* whose context menu was opened last (none when no request was sent for it),
\* once that menu's request is no longer in flight.
C8_CommandResponse ==
    (lastCommand # None /\ lastCommand[1].id \in BreakCommands
                        /\ ~lastCommand[1].pending)
    => lastCommand[1].response = lastCommand[1].expected

\* C9: the onWillUpdateViews handler forgets the focused frame's scopes iff a
\* frame is focused and forgetScopes was true, and leaves the flag true; the
\* update fired by a finished edit forgets nothing, every other update with a
\* focused frame does.
C9_ForgetScopesOnce ==
    lastUpdate # None =>
        LET u == lastUpdate[1]
        IN  /\ u.flagAfter
            /\ u.forgot <=> (u.hasFrame /\ u.flagAtEntry)
            /\ u.byEdit => ~u.forgot
            /\ (~u.byEdit /\ u.hasFrame) => u.forgot

\* C9 witness: the update fired by a finished edit ran with a frame focused
\* and forgot nothing.
C9_Witness ==
    /\ lastUpdate # None
    /\ lastUpdate[1].byEdit
    /\ lastUpdate[1].hasFrame
    /\ ~lastUpdate[1].forgot
    /\ forgetScopes

\* C10: when a run returns and no focus event arrived while it ran, the
\* tree's input is the focused frame the run read when it started; when that
\* is null the run returned after setInput(null), nothing is expanded and no
\* scope was recorded as auto-expanded.
C10_InputIsFocusedFrame ==
    [][ \A i \in 1..Len(runs) :
          (RunReturns(i) /\ runs[i].clean)
          => /\ runs[i].stackFrame = focused
             /\ treeInput' = focused
             /\ focused = Null =>
                  /\ runs[i].pc = "setInput"
                  /\ treeExpanded' = {}
                  /\ autoExpandedScopes' = autoExpandedScopes ]_vars

\* C10 witness: a run for frame G returned undisturbed and G is the input.
C10_Witness ==
    /\ lastDone = Some([stackFrame |-> "G", clean |-> TRUE])
    /\ treeInput = "G"
    /\ focused = "G"

\* A step that postpones the pending refresh: the scheduler is asked again
\* while its timer is pending, and the new timer fires later than the old.
Postponed ==
    /\ timerQueue # <<>> /\ timerQueue' # <<>>
    /\ timerQueue'[1].left > timerQueue[1].left

\* C11 as stated: a focus-change event that reached a view that is not
\* disposed, whose body is visible then or later, is eventually followed by
\* the start of a run of the refresh task (or the view is disposed).
C11_EveryFocusRefreshes ==
    (unserved /\ ~disposed /\ visible) ~> (~unserved \/ disposed)

\* C11 amended: the same, provided the pending refresh is postponed only
\* finitely often.
C11_FocusRefreshesUnlessPostponed ==
    <>[][~Postponed]_vars => C11_EveryFocusRefreshes

\* C11 witness: the focus moved to G while F was displayed, and the run that
\* serves the event has started with G as its frame.
C11_Witness ==
    /\ ~unserved /\ ~disposed /\ visible /\ ~needsRefresh
    /\ focused = "G" /\ treeLoaded = "F"
    /\ \E i \in 1..Len(runs) :
          runs[i].pc = "setInput" /\ runs[i].clean /\ runs[i].stackFrame = "G"

\* C14: a focus-change event handled while a refresh is pending leaves one
\* pending refresh whose whole delay, 0 for an explicit event and 400 ms for
\* any other, is counted from that event, whatever the delay of the timer it
\* replaced and whether or not that timer was due.
C14_LatestScheduleDecides ==
    [][ \A f \in MaybeFrame, explicit \in BOOLEAN :
          (/\ ~disposed /\ visible /\ timerQueue # <<>>
           /\ OnDidFocusStackFrame(f, explicit))
          => /\ Len(timerQueue') = 1
             /\ timerQueue'[1].delay = (IF explicit THEN 0 ELSE DefaultDelay)
             /\ timerQueue'[1].left = timerQueue'[1].delay ]_vars

\* C14 witness: a stepping-induced focus event replaced a pending timer
\* while an earlier event was still unserved, and the one pending refresh is
\* a whole 400 ms away.
C14_Witness ==
    /\ Len(timerQueue) = 1 /\ unserved /\ visible /\ ~disposed
    /\ timerQueue[1].by = "stepping" /\ timerQueue[1].coalesced
    /\ timerQueue[1].left = DefaultDelay /\ timerQueue[1].delay = DefaultDelay

\* C15: a focus-change event that reaches the view while its body is hidden
\* schedules nothing and sets needsRefresh; a visibility change touches the
\* scheduler only when the body becomes visible with needsRefresh set, and
\* then leaves one timer with the default 400 ms delay; needsRefresh goes
\* from true to false only in a step that starts a run of the refresh task.
C15_HiddenFocusOnlyMarks ==
    [][ /\ \A f \in MaybeFrame, explicit \in BOOLEAN :
              (~disposed /\ ~visible /\ OnDidFocusStackFrame(f, explicit))
              => /\ timerQueue' = timerQueue
                 /\ needsRefresh'
                 /\ ~RunStarts
        /\ \A v \in BOOLEAN :
              OnDidChangeBodyVisibility(v)
              => /\ timerQueue' # timerQueue => (v /\ needsRefresh)
                 /\ (~disposed /\ v /\ needsRefresh)
                      => /\ Len(timerQueue') = 1
                         /\ timerQueue'[1].by = "visibility"
                         /\ timerQueue'[1].delay = DefaultDelay
                         /\ timerQueue'[1].left = DefaultDelay
                 /\ needsRefresh' = needsRefresh
        /\ (needsRefresh /\ ~needsRefresh') => RunStarts ]_vars

\* C15 witness: a focus event arrived while the body was hidden; nothing is
\* scheduled and needsRefresh is set.
C15_Witness ==
    /\ ~disposed /\ ~visible /\ unserved
    /\ needsRefresh /\ timerQueue = <<>>

\* C16: runs of the refresh task do not overlap: a run starts only when no
\* earlier run is suspended at one of its awaits.
C16_RunsDoNotOverlap ==
    [][ RunStarts => runs = <<>> ]_vars

\* The first scope of a list whose expensive flag is false, if there is one.
FirstNotExpensive(scopes) ==
    LET cheap == {k \in 1..Len(scopes) : ~expensive(scopes[k])}
    IN  IF cheap = {} THEN None
        ELSE Some(scopes[CHOOSE k \in cheap : \A j \in cheap : k <= j])

\* C17: when a run resumes with the scopes of its frame, it picks the first
\* scope that is not expensive; if there is one and it is a node of the tree
\* at that moment, its id is added to autoExpandedScopes and expand is
\* called on it, and when expand returns at most that scope has become
\* expanded; otherwise the run returns, nothing is expanded and nothing is
\* recorded.
C17_AutoExpandsFirstCheapScope ==
    [][ \A i \in 1..Len(runs) :
          LET c == FirstNotExpensive(ScopesOf(runs[i].stackFrame))
          IN  /\ (runs[i].pc = "getScopes" /\ GetScopesDone(i))
                 => IF c # None /\ hasNode(c[1])
                    THEN /\ autoExpandedScopes' = autoExpandedScopes \cup {c[1]}
                         /\ Len(runs') = Len(runs) /\ runs'[i].pc = "expand"
                    ELSE /\ autoExpandedScopes' = autoExpandedScopes
                         /\ treeExpanded' = treeExpanded
                         /\ RunReturns(i)
              /\ (runs[i].pc = "expand" /\ ExpandDone(i))
                 => /\ c # None /\ c[1] \in autoExpandedScopes
                    /\ treeExpanded' \ treeExpanded \subseteq {c[1]}
                    /\ hasNode(c[1]) => c[1] \in treeExpanded'
                    /\ autoExpandedScopes' = autoExpandedScopes
                    /\ RunReturns(i) ]_vars

\* C17 witness: a run for frame F returned without recording F.locals, its
\* first scope that is not expensive: another run had replaced the tree's
\* children when it checked.
C17_Witness ==
    /\ lastDone # None /\ lastDone[1].stackFrame = "F"
    /\ "F.locals" \notin autoExpandedScopes
    /\ treeLoaded # "F"

\* C18: the end of a session empties the view-state cache and the set of
\* auto-expanded scopes whole, whichever frames their entries belong to,
\* and leaves the tree's input alone; no other step removes an entry from
\* either of them.
C18_SessionEndClearsAll ==
    [][ /\ (~disposed /\ OnDidEndSession)
           => /\ \A f \in Frames : savedViewState'[f] = None
              /\ autoExpandedScopes' = {}
              /\ treeInput' = treeInput
        /\ (\/ \E f \in Frames : savedViewState[f] # None /\ savedViewState'[f] = None
            \/ ~(autoExpandedScopes \subseteq autoExpandedScopes'))
           => OnDidEndSession ]_vars

\* C18 witness: F is displayed with its auto-expanded scope expanded, and a
\* session end has emptied both the cache and the set.
C18_Witness ==
    /\ ~disposed
    /\ savedViewState = EmptyMap /\ autoExpandedScopes = {}
    /\ treeInput = "F" /\ treeLoaded = "F" /\ "F.locals" \in treeExpanded
    /\ runs = <<>>

\* C19: a data-breakpoint command adds nothing when no response is stored,
\* and otherwise adds exactly one data breakpoint that carries the stored
\* response's description, dataId and accessTypes, its canPersist as a
\* boolean (false when absent), and the access type of the command: write
\* for break-when-value-changes, readWrite for break-when-value-is-accessed,
\* read for break-when-value-is-read.
C19_OneBreakpointFromResponse ==
    (lastCommand # None /\ lastCommand[1].id \in BreakCommands)
    => LET c == lastCommand[1]
       IN  IF c.response = None THEN c.added = <<>>
           ELSE /\ Len(c.added) = 1
                /\ c.added[1].description = c.response[1].description
                /\ c.added[1].dataId = c.response[1].dataId
                /\ c.added[1].accessTypes = c.response[1].accessTypes
                /\ c.added[1].canPersist \in BOOLEAN
                /\ c.added[1].canPersist <=> c.response[1].canPersist = <<TRUE>>
                /\ c.id = "debug.breakWhenValueChanges"
                      => c.added[1].accessType = "write"
                /\ c.id = "debug.breakWhenValueIsAccessed"
                      => c.added[1].accessType = "readWrite"
                /\ c.id = "debug.breakWhenValueIsRead"
                      => c.added[1].accessType = "read"

\* C19 witness: break-when-value-is-read ran on a response without
\* canPersist and added a read breakpoint that cannot persist.
C19_Witness ==
    /\ lastCommand # None
    /\ lastCommand[1].id = "debug.breakWhenValueIsRead"
    /\ lastCommand[1].response # None
    /\ lastCommand[1].response[1].canPersist = None
    /\ Len(lastCommand[1].added) = 1
    /\ lastCommand[1].added[1].accessType = "read"
    /\ ~lastCommand[1].added[1].canPersist

\* C20: every data breakpoint a command adds has a dataId that is not null.
C20_NoNullDataId ==
    lastCommand # None
    => \A k \in 1..Len(lastCommand[1].added) :
          lastCommand[1].added[k].dataId # Null

\* What the data source answered, by the kind of the element: no children
\* for the null input, children for every stack frame, the element's own
\* hasChildren for a scope or an expression; getScopes() of a stack frame
\* and getChildren() of any other element.
DataSourceByKind ==
    lastCall # None =>
        LET e == lastCall[1].element
            r == lastCall[1].result[1]
        IN  /\ lastCall[1].fn = "hasChildren" =>
                  /\ e = NullElement => r = FALSE
                  /\ (e # NullElement /\ e.class = "StackFrame") => r = TRUE
                  /\ (e # NullElement /\ e.class # "StackFrame")
                        => r = e.hasChildren
            /\ lastCall[1].fn = "doGetChildren" =>
                  /\ r.on = e
                  /\ r.method = (IF e.class = "StackFrame" THEN "getScopes"
                                 ELSE "getChildren")

C13_TemplateByKind ==
    (lastCall # None /\ lastCall[1].fn = "getTemplateId") =>
        LET e == lastCall[1].element
            id == lastCall[1].result[1]
        IN  /\ e.class = "ErrorScope" => id = "scopeError"
            /\ e.class = "Scope" => id = "scope"
            /\ e.class = "VisualizedExpression" => id = "viz"
            /\ e.class \notin {"ErrorScope", "Scope", "VisualizedExpression"}
                  => id = "variable"
            /\ Cardinality({k \in 1..Len(Renderers) : Renderers[k] = id}) = 1

\* C13 witness: the delegate was asked for an ErrorScope and returned the
\* error-scope template.
C13_Witness ==
    /\ lastCall # None
    /\ lastCall[1].fn = "getTemplateId"
    /\ lastCall[1].element.class = "ErrorScope"
    /\ lastCall[1].result = <<"scopeError">>

\* C21: no dataBreakpointInfo request is in flight for a variable whose
\* session lacks supportsDataBreakpoints, and its menu gets no
\* data-breakpoint key; the menu of any other variable gets, from the
\* response b = (dataId is not empty): without accessTypes the
\* value-changes key alone, set to b; with accessTypes the is-read key for
\* 'read', the value-changes key for 'write' and the is-accessed key for
\* 'readWrite', each set to b, and no key for a type that is not listed.
C21_KeysFollowResponse ==
    /\ \A i \in 1..Len(infoRequests) :
          supportsDataBreakpoints(infoRequests[i].variable)
    /\ (shownMenu # Null /\ ~supportsDataBreakpoints(shownMenu))
          => menuContext = {}
    /\ (shownMenu # Null /\ supportsDataBreakpoints(shownMenu)) =>
          LET r == dataBreakpointInfoResponse
              b == r # None /\ r[1].dataId # Null
              types == IF r = None THEN None ELSE r[1].accessTypes
              keyOf == [t \in {"read", "write", "readWrite"} |->
                          IF t = "read" THEN "breakWhenValueIsReadSupported"
                          ELSE IF t = "write"
                               THEN "breakWhenValueChangesSupported"
                          ELSE "breakWhenValueIsAccessedSupported"]
          IN  IF types = None
              THEN menuContext = {<<"breakWhenValueChangesSupported", b>>}
              ELSE /\ \A t \in DOMAIN keyOf :
                        IF t \in types[1]
                        THEN <<keyOf[t], b>> \in menuContext
                        ELSE \A p \in menuContext : p[1] # keyOf[t]
                   /\ \A p \in menuContext :
                        p[2] = b /\ \E t \in DOMAIN keyOf : p[1] = keyOf[t]

\* C21 witness: the menu of y is shown for a response that lists 'write' and
\* has a null dataId: the value-changes key alone is set, to false.
C21_Witness ==
    /\ shownMenu = "y"
    /\ dataBreakpointInfoResponse # None
    /\ dataBreakpointInfoResponse[1].dataId = Null
    /\ dataBreakpointInfoResponse[1].accessTypes = <<{"write"}>>
    /\ menuContext = {<<"breakWhenValueChangesSupported", FALSE>>}

\* C25: a context-menu event on a scope, an error scope, a visualized
\* expression or a Variable whose value is empty sends no request, shows no
\* menu and builds no context, and leaves variableInternalContext and
\* dataBreakpointInfoResponse as they were; only Variables with a value
\* ever have a request in flight or a menu shown.
C25_MenuOnlyForValuedVariable ==
    [][ /\ \A e \in MenuTargets :
              (OnContextMenu(e) /\ (e \notin Variables \/ e \in EmptyValued))
              => /\ infoRequests' = infoRequests
                 /\ shownMenu' = shownMenu
                 /\ menuContext' = menuContext
                 /\ variableInternalContext' = variableInternalContext
                 /\ dataBreakpointInfoResponse' = dataBreakpointInfoResponse
        /\ shownMenu' \in (Variables \ EmptyValued) \cup {Null}
        /\ \A i \in 1..Len(infoRequests') :
              infoRequests'[i].variable \in Variables \ EmptyValued ]_vars

\* C25 witness: while the menu of x is shown, a context-menu event on u, a
\* Variable without a value, has left the menu and the context alone.
C25_Witness ==
    /\ menuEvent = "u"
    /\ shownMenu = "x" /\ variableInternalContext = "x"
    /\ dataBreakpointInfoResponse # None

\* The elements canSetExpressionValue accepts while a session is focused: a
\* VisualizedExpression whose tree item has canEdit, a Variable that is
\* neither readOnly nor lazy.
Editable(e) ==
    \/ e \in Visualized \cup FixedVisualized /\ e \in Visualized
    \/ /\ e \in Variables \cup EmptyValued \cup ReadOnlyVariables
                        \cup LazyVariables
       /\ e \notin ReadOnlyVariables /\ e \notin LazyVariables

\* C26: a double-click on e selects e in the view model exactly when a
\* session is focused and e is a VisualizedExpression with canEdit or a
\* Variable neither readOnly nor lazy; on any other element, and with no
\* session focused, the selection stays as it was.
C26_DblClickEditsEditable ==
    [][ \A e \in DblClickTargets :
          OnMouseDblClick(e)
          => IF focused # Null /\ Editable(e)
             THEN selectedExpression' = e
             ELSE /\ selectedExpression' = selectedExpression
                  /\ horizontalScrolling' = horizontalScrolling
                  /\ treeHorizontalScrolling' = treeHorizontalScrolling ]_vars

\* C26 witness: with a frame focused and x being edited, the lazy variable l
\* was double-clicked and x is still the selected expression.
C26_Witness ==
    /\ focused # Null
    /\ dblClicked = "l"
    /\ selectedExpression = "x"

\* C22: closing a Variable's input box clears that variable's errorMessage
\* whatever the outcome, sends a request exactly when the edit succeeded
\* with a value that differs while a stack frame is focused, and by itself
\* neither changes forgetScopes nor runs the views update; a request that
\* rejects changes neither as well.
C22_FinishSendsWhenChanged ==
    [][ /\ \A success \in BOOLEAN, changed \in BOOLEAN :
              (InputBoxFinish(success, changed)
                 /\ selectedExpression \in Variables)
              => /\ selectedExpression \notin errorMessage'
                 /\ errorMessage' \ {selectedExpression}
                      = errorMessage \ {selectedExpression}
                 /\ edits' = IF success /\ changed /\ focused # Null
                              THEN edits + 1 ELSE edits
                 /\ forgetScopes' = forgetScopes
                 /\ lastUpdate' = lastUpdate
        /\ EditRejected => /\ forgetScopes' = forgetScopes
                            /\ lastUpdate' = lastUpdate ]_vars

\* C22 witness: x carried an errorMessage when its input box was closed with
\* a new value after the focused frame had gone: the message is cleared and
\* no request was sent.
C22_Witness ==
    /\ lastFinish # None
    /\ lastFinish[1].element = "x"
    /\ lastFinish[1].success /\ lastFinish[1].changed
    /\ ~lastFinish[1].hasFrame
    /\ lastFinish[1].hadError
    /\ "x" \notin errorMessage
    /\ edits = 0
    /\ focused = Null

\* C27: a Variable is expanded by the lazy-expression listener only in a run
\* whose updateChildren has completed, and every run that waits for expand
\* has refreshed its element's children; an event for an element that is not
\* a Variable or not a node of the tree starts no run and leaves the tree's
\* expansion, input and refreshed children as they were.
C27_RefreshThenExpand ==
    [][ /\ \A i \in 1..Len(lazyRuns) :
              LazyExpandDone(i)
              => /\ lazyRuns[i].refreshed
                 /\ lazyRuns[i].element \in childrenRefreshed
        /\ \A e \in LazyTargets :
              (OnDidEvaluateLazyExpression(e)
                 /\ (e \notin Variables \cup LazyVariables \/ ~hasNode(e)))
              => /\ lazyRuns' = lazyRuns
                 /\ treeExpanded' = treeExpanded
                 /\ childrenRefreshed' = childrenRefreshed
                 /\ treeInput' = treeInput /\ treeLoaded' = treeLoaded
        /\ \A e \in LazyTargets :
              (OnDidEvaluateLazyExpression(e)
                 /\ e \in Variables \cup LazyVariables /\ hasNode(e))
              => /\ Len(lazyRuns') = Len(lazyRuns) + 1
                 /\ treeExpanded' = treeExpanded
                 /\ e \notin childrenRefreshed' \ childrenRefreshed ]_vars

\* C27 witness: the lazy variable l was evaluated while a row of the tree;
\* its children were refreshed and it is now expanded, the run has returned.
C27_Witness ==
    /\ lazyEvent = "l"
    /\ "l" \in childrenRefreshed
    /\ "l" \in treeExpanded
    /\ lazyRuns = <<>>

\* The expression the claim has the command evaluate for an element: x by
\* its evaluateName, y by its value, the watch expression a+b by its name.
ExpressionFor(e) ==
    IF e = "x" THEN <<"this.x">>
    ELSE IF e = "y" THEN <<"2">>
    ELSE IF e = "a+b" THEN <<"a+b">>
    ELSE <<>>

MemoryRecords ==
    {memoryRuns[i] : i \in 1..Len(memoryRuns)}
       \cup (IF lastMemory = None THEN {} ELSE {lastMemory[1]})

\* C24: a run of the view-memory command has opened the editor only if the
\* extension was found or its installation resolved; a run whose argument
\* lacks the session id or the memory reference, or is an expression while
\* no session is focused, has looked nothing up and installed nothing; a run
\* that found no extension and whose installation failed has notified the
\* error and has neither opened an editor nor logged telemetry.
C24_EditorNeedsExtension ==
    \A r \in MemoryRecords :
       /\ r.editor => (r.ext = Some(TRUE) \/ r.installed = Some(TRUE))
       /\ r.telemetry => r.editor
       /\ (\/ ~r.arg.memoryReference
           \/ (r.arg.kind = "IVariablesContext" /\ ~r.arg.sessionId)
           \/ (r.arg.kind = "IExpression" /\ ~r.hasSession))
          => /\ r.ext = None /\ r.installed = None
             /\ ~r.editor /\ ~r.telemetry /\ ~r.notified
             /\ r.awaiting = "returned"
       /\ (r.ext = Some(FALSE) /\ r.installed = Some(FALSE))
          => r.notified /\ ~r.editor /\ ~r.telemetry
       /\ r.installed # None => r.ext = Some(FALSE)

\* C24 witness: called for an expression with a memory reference while a
\* session was focused, the command found no extension, the installation
\* failed, and it returned having notified the error without an editor.
C24_Witness ==
    /\ lastMemory # None
    /\ lastMemory[1].arg.kind = "IExpression"
    /\ lastMemory[1].ext = Some(FALSE)
    /\ lastMemory[1].installed = Some(FALSE)
    /\ lastMemory[1].notified
    /\ ~lastMemory[1].editor

====
